---- MODULE Spec2Model ----
\* Model of the Bitbucket Cloud plugin of python-devops-sccs:
\*   src/devops_sccs/plugins/bitbucketcloud.py  (webhook endpoint, cache reads,
\*                                               sessions, deployment trigger)
\*   src/devops_sccs/utils/cd.py                (trigger_prepare)
\*   src/devops_sccs/realtime/hookserver.py     (create_cache)
\* The AsyncCache class (devops_sccs/cache.py) is not part of the sources at
\* hand; its get/set/delete/contains are modelled from the specification.
EXTENDS Integers, Sequences, FiniteSets, TLC

VARIABLES
    cache,          \* self.cache: namespace -> key -> <<>> (unset) or <<value>>
    sessions,       \* self.cache_local_sessions: session id -> <<>> or <<session>>
    opened,         \* per session id: open_session calls since the session was created
    closed,         \* per session id: close_session calls since the session was created
    upstream_log,   \* mutating calls issued to the provider, in order
    now,            \* time.time(): seconds on the plugin's clock
    coroutines,     \* calls in flight on an event loop: coroutine id -> its frame
    last            \* the last operation: its arguments, inputs observed and outcome

vars == <<cache, sessions, opened, closed, upstream_log, now, coroutines, last>>

-----------------------------------------------------------------------------
\* Bounds of the model

MaxBuild == 2       \* pipelines known upstream carry build numbers 1..MaxBuild
MaxEventBuild == 2  \* build numbers carried by commit-status events
MaxVersion == 2     \* versions (commit identifiers) 1..MaxVersion
MaxOpens == 3       \* open_session calls on one identity while its session lives
MaxChanges == 1     \* changes carried by one push event
StartTime == 100000 \* the clock's reading when the plugin starts
TickStep == 3600    \* seconds between two readings of the clock
MaxTicks == 3       \* readings of the clock after the first

-----------------------------------------------------------------------------
\* Configuration handed to init (args["continous_deployment"])

Repos == {"team/app"}

cd_environments ==
    << [name |-> "dev",  branch |-> "develop", enabled |-> TRUE,  pullrequest |-> FALSE],
       [name |-> "qa",   branch |-> "release", enabled |-> FALSE, pullrequest |-> FALSE],
       [name |-> "prod", branch |-> "main",    enabled |-> TRUE,  pullrequest |-> TRUE] >>

cd_branches_accepted == [i \in 1..Len(cd_environments) |-> cd_environments[i].branch]

cd_versions_available == {"develop", "hotfix"}

EnvNames == {cd_environments[i].name : i \in 1..Len(cd_environments)}

\* Branch names the provider may list for a repository; "feature" is no CD branch
BranchNames == {"develop", "release", "main", "feature"}

\* Ref names a commit-status event may carry; "hotfix" is tracked for available
\* versions without being a CD branch, "feature" is not tracked
RefNames == {"develop", "hotfix", "feature"}

Versions == 1..MaxVersion

Namespaces == {"repo", "environementConfig", "continuousDeploymentConfig", "available"}

-----------------------------------------------------------------------------
\* Python helpers

Range(s) == {s[i] : i \in 1..Len(s)}

\* list.index(x): the first position of x, 0 standing for ValueError
Index(s, x) ==
    IF x \in Range(s) THEN CHOOSE i \in 1..Len(s) : s[i] = x /\ \A j \in 1..(i-1) : s[j] # x
    ELSE 0

\* list.insert(i, x) with a 0-based i
Insert(s, i, x) == SubSeq(s, 1, i) \o <<x>> \o SubSeq(s, i + 1, Len(s))

\* Build numbers are Python values: the provider's pipelines API gives integers,
\* re.search(...).group(1) gives the decimal string.
PyInt(n) == [ty |-> "int", n |-> n]
PyStr(n) == [ty |-> "str", n |-> n]

RECURSIVE Digits(_)
Digits(n) == IF n < 10 THEN <<n>> ELSE Digits(n \div 10) \o <<n % 10>>

RECURSIVE LexGT(_, _)
LexGT(a, b) ==
    IF a = <<>> THEN FALSE
    ELSE IF b = <<>> THEN TRUE
    ELSE IF Head(a) # Head(b) THEN Head(a) > Head(b)
    ELSE LexGT(Tail(a), Tail(b))

\* a > b in Python: "TypeError" between int and str, numeric between ints,
\* lexicographic between strings
PyGT(a, b) ==
    IF a.ty # b.ty THEN "TypeError"
    ELSE IF a.ty = "int" THEN (IF a.n > b.n THEN "True" ELSE "False")
    ELSE (IF LexGT(Digits(a.n), Digits(b.n)) THEN "True" ELSE "False")

\* a == b in Python: an int never equals a str
PyEQ(a, b) == a.ty = b.ty /\ a.n = b.n

-----------------------------------------------------------------------------
\* Shared State Cache (AsyncCache): get / set / delete / contains

Contains(c, ns, key) == c[ns][key] # <<>>

CacheSet(c, ns, key, value) == [c EXCEPT ![ns][key] = <<value>>]

CacheDelete(c, ns, key) == [c EXCEPT ![ns][key] = <<>>]

\* get(key): the stored value; on a miss the population function's outcome
\* `fetched` ([ok, val]) is stored when it succeeded and propagated otherwise
CacheGet(c, ns, key, fetched) ==
    IF Contains(c, ns, key) THEN [ok |-> TRUE, val |-> c[ns][key][1], cache |-> c, miss |-> FALSE]
    ELSE IF fetched.ok THEN [ok |-> TRUE, val |-> fetched.val,
                             cache |-> CacheSet(c, ns, key, fetched.val), miss |-> TRUE]
    ELSE [ok |-> FALSE, val |-> fetched.val, cache |-> c, miss |-> TRUE]

Ok(v) == [ok |-> TRUE, val |-> v]
Err(e) == [ok |-> FALSE, val |-> e]

\* None, and a value that is not None
None == <<>>
Some(v) == <<v>>

-----------------------------------------------------------------------------
\* Answers of the provider (inputs of the population functions)

\* Branch listings: every discovery order of every set of branches
BranchListings ==
    {s \in UNION {[1..k -> BranchNames] : k \in 0..Cardinality(BranchNames)} :
        \A i, j \in 1..Len(s) : i # j => s[i] # s[j]}

\* Pipelines of a repository in creation order: the provider numbers them
\* 1, 2, ... as they are created
PipelineKinds == [ref_name : {"develop", "feature"}, result : {"SUCCESSFUL", "FAILED"}]

PipelineHistories == UNION {[1..k -> PipelineKinds] : k \in 0..MaxBuild}

\* repo.pipelines().get(filter='sort=-created_on'): newest first
NewestFirst(p) ==
    [i \in 1..Len(p) |-> [build_number |-> Len(p) + 1 - i,
                          ref_name |-> p[Len(p) + 1 - i].ref_name,
                          result |-> p[Len(p) + 1 - i].result,
                          \* the commit a pipeline built, named after the pipeline
                          commit |-> Len(p) + 1 - i]]

\* typing_cd.Available(hash((repository, build))) with build and version set
Available(repository, build, version) ==
    [key |-> <<repository, build.n>>, build |-> build, version |-> version]

\* typing_cd.EnvironmentConfig(hash((repository, branch))) with environment set
EnvironmentEntry(repository, branch, environment) ==
    [key |-> <<repository, branch>>, environment |-> environment]

\* sorted(pairs, key=lambda p: p[2]): stable insertion by the index
RECURSIVE SortedByIndex(_)
SortedByIndex(s) ==
    IF s = <<>> THEN <<>>
    ELSE LET x == s[Len(s)]
             front == SortedByIndex(SubSeq(s, 1, Len(s) - 1))
             k == Cardinality({i \in 1..Len(front) : front[i][2] <= x[2]})
         IN Insert(front, k, x)

\* the accepted branches of a listing, in discovery order, with their index
AcceptedOf(listing) ==
    LET acc == SelectSeq(listing, LAMBDA b : Index(cd_branches_accepted, b) # 0)
    IN [i \in 1..Len(acc) |-> <<acc[i], Index(cd_branches_accepted, acc[i])>>]

\* Mutant: the listing is kept in discovery order (the sort is dropped)
Mutant_environments_unsorted(repository, listing) ==
    LET availables == AcceptedOf(listing)
    IN [i \in 1..Len(availables) |->
            EnvironmentEntry(repository, availables[i][1], cd_environments[availables[i][2]].name)]

_fetch_continuous_deployment_environments_available(repository, listing) ==
    LET availables == AcceptedOf(listing)
        ordered == SortedByIndex(availables)
    IN [i \in 1..Len(ordered) |->
            EnvironmentEntry(repository, ordered[i][1], cd_environments[ordered[i][2]].name)]

\* Mutant: the pipelines are listed oldest first (sort=created_on)
Mutant_versions_oldest_first(repository, pipelines) ==
    LET listed == [i \in 1..Len(pipelines) |->
                      [build_number |-> i, ref_name |-> pipelines[i].ref_name,
                       result |-> pipelines[i].result, commit |-> i]]
        kept == SelectSeq(listed, LAMBDA p : p.ref_name \in cd_versions_available
                                             /\ p.result = "SUCCESSFUL")
    IN [i \in 1..Len(kept) |-> Available(repository, PyInt(kept[i].build_number), kept[i].commit)]

_fetch_continuous_deployment_versions_available(repository, pipelines) ==
    LET listed == NewestFirst(pipelines)
        kept == SelectSeq(listed, LAMBDA p : p.ref_name \in cd_versions_available
                                             /\ p.result = "SUCCESSFUL")
    IN [i \in 1..Len(kept) |-> Available(repository, PyInt(kept[i].build_number), kept[i].commit)]

\* _create_continuous_deployment_config_by_branch
_create_continuous_deployment_config_by_branch(repository, version, branch, config, pullrequest) ==
    [key |-> <<repository, branch>>,
     version |-> version,
     environment |-> config.name,
     readonly |-> ~config.enabled,
     pullrequest |-> IF config.pullrequest THEN pullrequest ELSE <<>>]

\* Outcome of the per-branch tasks: resolved[i] is the version read for the i-th
\* configured branch, 0 when the task raised; openpr tells whether a tagged pull
\* request targets a pull-request-mediated branch. Every branch carries the same
\* version, or one task raises.
TaskOutcomes ==
    {[i \in 1..Len(cd_environments) |-> v] : v \in Versions}
    \cup {[i \in 1..Len(cd_environments) |-> IF i = k THEN 0 ELSE 1] : k \in 1..Len(cd_environments)}

PullRequestLink == <<"pr-link">>

\* Mutant: only a repository without any branch is refused
Mutant_fetch_config_refuses_empty_listing(repository, listing, resolved, openpr) ==
    LET deploys == SortedByIndex(AcceptedOf(listing))
        tasks == [i \in 1..Len(deploys) |-> deploys[i][1]]
        raised == {deploys[i][1] : i \in {j \in 1..Len(deploys) : resolved[deploys[j][2]] = 0}}
    IN IF Len(listing) = 0
       THEN [ok |-> FALSE, val |-> "SccsException",
             listed |-> Range(listing), tasks |-> <<>>, captured |-> {}]
       ELSE IF raised # {}
            THEN [ok |-> FALSE, val |-> "TypeError",
                  listed |-> Range(listing), tasks |-> tasks, captured |-> raised]
       ELSE [ok |-> TRUE,
             val |-> [i \in 1..Len(deploys) |->
                 [branch |-> deploys[i][1],
                  config |-> _create_continuous_deployment_config_by_branch(
                                repository, resolved[deploys[i][2]], deploys[i][1],
                                cd_environments[deploys[i][2]],
                                IF openpr THEN PullRequestLink ELSE <<>>)]],
             listed |-> Range(listing), tasks |-> tasks, captured |-> {}]

\* The outcome ([ok, val]) with what happened on the way: the branches the
\* provider listed, the branches a task was created for, in order, and the
\* branches whose task gather returned as an exception
_fetch_continuous_deployment_config(repository, listing, resolved, openpr) ==
    LET deploys == SortedByIndex(AcceptedOf(listing))
        tasks == [i \in 1..Len(deploys) |-> deploys[i][1]]
        raised == {deploys[i][1] : i \in {j \in 1..Len(deploys) : resolved[deploys[j][2]] = 0}}
    IN IF Len(deploys) = 0
       THEN [ok |-> FALSE, val |-> "SccsException",
             listed |-> Range(listing), tasks |-> <<>>, captured |-> {}]
       ELSE IF raised # {}
            \* response[result[0]] on an exception returned by gather
            THEN [ok |-> FALSE, val |-> "TypeError",
                  listed |-> Range(listing), tasks |-> tasks, captured |-> raised]
       ELSE [ok |-> TRUE,
             val |-> [i \in 1..Len(deploys) |->
                 [branch |-> deploys[i][1],
                  config |-> _create_continuous_deployment_config_by_branch(
                                repository, resolved[deploys[i][2]], deploys[i][1],
                                cd_environments[deploys[i][2]],
                                IF openpr THEN PullRequestLink ELSE <<>>)]],
             listed |-> Range(listing), tasks |-> tasks, captured |-> {}]

-----------------------------------------------------------------------------
\* Webhook Event Ingestor

HookEvents == {"repo:deleted", "repo:push", "repo:commit_status_created",
               "repo:commit_status_updated", "repo:updated"}

CommitStates == {"SUCCESSFUL", "FAILED", "STOPPED", "INPROGRESS"}

\* commit_status of a status event: the url ends in /<build>
CommitStatuses == [refname : RefNames, state : CommitStates,
                   build : 1..MaxEventBuild, commit : Versions]

PushChanges == UNION {[1..k -> [created : BOOLEAN, name : BranchNames]] : k \in 0..MaxChanges}

\* What a population function can answer on a miss of each namespace
FetchedEnvironments(repository) ==
    {Ok(_fetch_continuous_deployment_environments_available(repository, l)) : l \in BranchListings}
    \cup {Err("NetworkError")}

FetchedVersions(repository) ==
    {Ok(_fetch_continuous_deployment_versions_available(repository, p)) : p \in PipelineHistories}
    \cup {Err("NetworkError")}

FetchedConfigs(repository) ==
    {_fetch_continuous_deployment_config(repository, l, t, o) :
        l \in BranchListings, t \in TaskOutcomes, o \in BOOLEAN}
    \cup {[ok |-> FALSE, val |-> "NetworkError", listed |-> {}, tasks |-> <<>>, captured |-> {}]}

NotFetched == {Err("unused")}

\* The population outcomes to draw from: they matter on a miss only
OnMiss(c, ns, key, outcomes) == IF Contains(c, ns, key) THEN NotFetched ELSE outcomes

\* Mutant: the loop covers the three namespaces the first version of the
\* plugin had and misses continuousDeploymentConfig
Mutant_delete_three_namespaces(c, UUID) ==
    [ns \in Namespaces |->
        IF ns # "continuousDeploymentConfig" /\ Contains(c, ns, UUID)
        THEN CacheDelete(c, ns, UUID)[ns] ELSE c[ns]]

\* __handle_delete_repo
__handle_delete_repo(c, UUID) ==
    [ns \in Namespaces |->
        IF Contains(c, ns, UUID) THEN CacheDelete(c, ns, UUID)[ns] ELSE c[ns]]

\* __handle_push, run to completion. The first created change naming a CD
\* branch reads the cached environment list and iterates it with `async for`:
\* the list has no __aiter__, so the TypeError (no ValueError) leaves the handler.
RECURSIVE __handle_push(_, _, _, _)
__handle_push(c, UUID, changes, fetched) ==
    IF changes = <<>> THEN [result |-> "ok", cache |-> c]
    ELSE LET change == Head(changes) IN
         IF ~change.created THEN __handle_push(c, UUID, Tail(changes), fetched)
         ELSE IF Index(cd_branches_accepted, change.name) = 0
              \* ValueError of list.index, caught: next change
              THEN __handle_push(c, UUID, Tail(changes), fetched)
         ELSE LET got == CacheGet(c, "environementConfig", UUID, fetched) IN
              IF ~got.ok THEN [result |-> got.val, cache |-> got.cache]
              ELSE [result |-> "TypeError", cache |-> got.cache]

\* The scan of __handle_commit_status over local_available: k is the position
\* of conf (1-based), i the insertion index (0-based)
RECURSIVE ScanAvailable(_, _, _, _, _)
ScanAvailable(local_available, k, i, build_nb, available) ==
    IF k > Len(local_available) THEN [err |-> FALSE, list |-> local_available]
    ELSE LET gt == PyGT(local_available[k].build, build_nb) IN
         IF gt = "TypeError" THEN [err |-> TRUE, list |-> local_available]
         ELSE IF gt = "True" THEN ScanAvailable(local_available, k + 1, i + 1, build_nb, available)
         ELSE IF PyEQ(local_available[k].build, build_nb)
              THEN [err |-> FALSE, list |-> local_available]
         ELSE [err |-> FALSE, list |-> Insert(local_available, i, available)]

\* Mutant: the new build is appended to the list whatever the scan found
Mutant_commit_status_appends(c, UUID, event, commit_status, fetched) ==
    IF commit_status.refname \notin cd_versions_available
    THEN [result |-> "ok", cache |-> c, branch |-> "none"]
    ELSE IF commit_status.state = "SUCCESSFUL"
    THEN LET got == CacheGet(c, "available", UUID, fetched) IN
         IF ~got.ok THEN [result |-> got.val, cache |-> got.cache, branch |-> "successful"]
         ELSE [result |-> "ok",
               cache |-> CacheSet(got.cache, "available", UUID,
                            Append(got.val, Available(UUID, PyStr(commit_status.build),
                                                      commit_status.commit))),
               branch |-> "successful"]
    ELSE [result |-> "ok", cache |-> c, branch |-> "failed_or_stopped"]

\* Truth value of a State member used as a condition: an enum member is truthy
Truthy(state) == state \in CommitStates

\* The if / elif chain on curr_status_state (lines 143, 165, 169): the branch taken
StateBranch(curr_status_state) ==
    IF curr_status_state = "SUCCESSFUL" THEN "successful"
    ELSE IF curr_status_state = "FAILED" \/ Truthy("STOPPED") THEN "failed_or_stopped"
    ELSE IF curr_status_state = "INPROGRESS" THEN "inprogress"
    ELSE "none"

\* __handle_commit_status from the list the cache read returned: the scan and
\* the write-back, with no suspension in between
scan_and_store(c, UUID, commit_status, local_available) ==
    LET build_nb == PyStr(commit_status.build)
        scan == ScanAvailable(local_available, 1, 0, build_nb,
                              Available(UUID, build_nb, commit_status.commit)) IN
    IF scan.err THEN [result |-> "TypeError", cache |-> c, branch |-> "successful"]
    ELSE [result |-> "ok", cache |-> CacheSet(c, "available", UUID, scan.list),
          branch |-> "successful"]

\* Whether the handler gets as far as reading the cached list
ReadsAvailable(event, commit_status) ==
    /\ commit_status.refname \in cd_versions_available
    /\ ~(event = "repo:commit_status_created"
          /\ Index(cd_branches_accepted, commit_status.refname) = 0)
    /\ StateBranch(commit_status.state) = "successful"

\* __handle_commit_status, run to completion
__handle_commit_status(c, UUID, event, commit_status, fetched) ==
    IF commit_status.refname \notin cd_versions_available
    THEN [result |-> "ok", cache |-> c, branch |-> "none"]
    ELSE LET build_nb == PyStr(commit_status.build)
             branch == StateBranch(commit_status.state) IN
         IF event = "repo:commit_status_created"
            /\ Index(cd_branches_accepted, commit_status.refname) = 0
         THEN [result |-> "ValueError", cache |-> c, branch |-> "none"]
         ELSE IF branch = "successful"
         THEN LET got == CacheGet(c, "available", UUID, fetched) IN
              IF ~got.ok THEN [result |-> got.val, cache |-> got.cache, branch |-> branch]
              ELSE scan_and_store(got.cache, UUID, commit_status, got.val)
         \* `state == FAILED or STOPPED`: STOPPED is truthy, every other state
         \* ends here and changes nothing
         ELSE [result |-> "ok", cache |-> c, branch |-> branch]

\* __handle_Hooks_Repo: the endpoint. __handle_push and __handle_commit_status
\* are coroutine functions called without await: the coroutine object is
\* dropped and its body does not run.
__handle_Hooks_Repo(c, event, UUID, responseJson) ==
    IF event = "repo:deleted" THEN __handle_delete_repo(c, UUID)
    ELSE CacheSet(c, "repo", UUID, [full_name |-> UUID])

\* The body of an event (responseJson) as far as the handlers read it
NoChanges == <<>>
NoCommitStatus == <<>>

Payloads(event) ==
    IF event = "repo:push"
    THEN [changes : PushChanges, commit_status : {NoCommitStatus}]
    ELSE IF event \in {"repo:commit_status_created", "repo:commit_status_updated"}
    THEN [changes : {NoChanges}, commit_status : {<<cs>> : cs \in CommitStatuses}]
    ELSE [changes : {NoChanges}, commit_status : {NoCommitStatus}]

\* The body reduced to what the endpoint itself reads, the repository: the
\* parts only the handlers would read are left out
BarePayload(event) == [changes |-> NoChanges, commit_status |-> NoCommitStatus]

HooksRepo(event, UUID, responseJson) ==
    /\ cache' = __handle_Hooks_Repo(cache, event, UUID, responseJson)
    /\ last' = [op |-> "hook", deleted |-> event = "repo:deleted", UUID |-> UUID,
                key |-> event, payload |-> responseJson,
                \* namespaces that held an entry for UUID when the event arrived
                held |-> Cardinality({ns \in Namespaces : Contains(cache, ns, UUID)}),
                result |-> "ok"]
    /\ UNCHANGED <<sessions, opened, closed, upstream_log, now, coroutines>>

HandlePush(UUID, changes) ==
    \E fetched \in OnMiss(cache, "environementConfig", UUID, FetchedEnvironments(UUID)) :
        LET r == __handle_push(cache, UUID, changes, fetched) IN
        /\ cache' = r.cache
        /\ last' = [op |-> "push", result |-> r.result,
                    created |-> \E k \in 1..Len(changes) :
                                   changes[k].created
                                   /\ Index(cd_branches_accepted, changes[k].name) # 0]
        /\ UNCHANGED <<sessions, opened, closed, upstream_log, now, coroutines>>

HandleCommitStatus(UUID, event, commit_status) ==
    \E fetched \in OnMiss(cache, "available", UUID, FetchedVersions(UUID)) :
        LET r == __handle_commit_status(cache, UUID, event, commit_status, fetched) IN
        /\ cache' = r.cache
        /\ last' = [op |-> "commit_status", result |-> r.result,
                    UUID |-> UUID, state |-> commit_status.state, branch |-> r.branch,
                    successful |-> commit_status.state = "SUCCESSFUL",
                    tracked |-> commit_status.refname \in cd_versions_available,
                    \* the event, kept for the successful tracked ones
                    event |-> IF commit_status.state = "SUCCESSFUL"
                                 /\ commit_status.refname \in cd_versions_available
                              THEN <<UUID, event, commit_status>> ELSE <<>>,
                    \* the same event as the operation before, which had a
                    \* list to work on
                    replay |-> /\ last.op = "commit_status"
                               /\ last.event = <<UUID, event, commit_status>>
                               /\ last.result # "NetworkError",
                    changed |-> \/ r.cache["available"] # cache["available"]
                                \/ r.cache["environementConfig"] # cache["environementConfig"]]
        /\ UNCHANGED <<sessions, opened, closed, upstream_log, now, coroutines>>

-----------------------------------------------------------------------------
\* Cached reads of the watchers (session None) and direct reads (with a session)

\* Mutant: the watcher's read goes to the population function every time
Mutant_environments_read_uncached(repository) ==
    \E fetched \in FetchedEnvironments(repository) :
        /\ cache' = IF fetched.ok
                    THEN CacheSet(cache, "environementConfig", repository, fetched.val)
                    ELSE cache
        /\ last' = [op |-> "environments", repository |-> repository, miss |-> TRUE,
                    returned |-> IF fetched.ok THEN Some(fetched.val) ELSE None,
                    result |-> IF fetched.ok THEN "ok" ELSE fetched.val]
        /\ UNCHANGED <<sessions, opened, closed, upstream_log, now, coroutines>>

\* get_continuous_deployment_environments_available
GetEnvironmentsAvailable(repository) ==
    \E fetched \in OnMiss(cache, "environementConfig", repository, FetchedEnvironments(repository)) :
        LET got == CacheGet(cache, "environementConfig", repository, fetched) IN
        /\ cache' = got.cache
        /\ last' = [op |-> "environments", repository |-> repository, miss |-> got.miss,
                    returned |-> IF got.ok THEN Some(got.val) ELSE None,
                    result |-> IF got.ok THEN "ok" ELSE got.val]
        /\ UNCHANGED <<sessions, opened, closed, upstream_log, now, coroutines>>

\* Mutant: a failed population leaves an empty list under the key
Mutant_versions_read_caches_failure(repository) ==
    \E fetched \in OnMiss(cache, "available", repository, FetchedVersions(repository)) :
        LET got == CacheGet(cache, "available", repository, fetched) IN
        /\ cache' = IF got.ok THEN got.cache
                    ELSE CacheSet(cache, "available", repository, <<>>)
        /\ last' = [op |-> "versions", repository |-> repository, miss |-> got.miss,
                    returned |-> IF got.ok THEN Some(got.val) ELSE None,
                    result |-> IF got.ok THEN "ok" ELSE got.val]
        /\ UNCHANGED <<sessions, opened, closed, upstream_log, now, coroutines>>

\* get_continuous_deployment_versions_available
GetVersionsAvailable(repository) ==
    \E fetched \in OnMiss(cache, "available", repository, FetchedVersions(repository)) :
        LET got == CacheGet(cache, "available", repository, fetched) IN
        /\ cache' = got.cache
        /\ last' = [op |-> "versions", repository |-> repository, miss |-> got.miss,
                    returned |-> IF got.ok THEN Some(got.val) ELSE None,
                    result |-> IF got.ok THEN "ok" ELSE got.val]
        /\ UNCHANGED <<sessions, opened, closed, upstream_log, now, coroutines>>

\* dict[key] on the branch-indexed response: the position of the key, 0 for KeyError
Lookup(dict, key) ==
    IF \E i \in 1..Len(dict) : dict[i].branch = key
    THEN CHOOSE i \in 1..Len(dict) : dict[i].branch = key
    ELSE 0

\* get_continuous_deployment_config. With a session the expression is
\* `await (coroutine.values())`: the coroutine object has no attribute values.
\* Without one the cached response, indexed by branch name, is read with the
\* environment names.
get_continuous_deployment_config(c, session, repository, environments, fetched) ==
    IF session # None THEN [ok |-> FALSE, val |-> "AttributeError", cache |-> c]
    ELSE LET got == CacheGet(c, "continuousDeploymentConfig", repository, fetched) IN
         IF ~got.ok THEN [ok |-> FALSE, val |-> got.val, cache |-> got.cache]
         ELSE IF environments = None
              THEN [ok |-> TRUE, val |-> [i \in 1..Len(got.val) |-> got.val[i].config],
                    cache |-> got.cache]
         ELSE IF \E k \in 1..Len(environments[1]) : Lookup(got.val, environments[1][k]) = 0
              THEN [ok |-> FALSE, val |-> "KeyError", cache |-> got.cache]
         ELSE [ok |-> TRUE,
               val |-> [k \in 1..Len(environments[1]) |->
                           got.val[Lookup(got.val, environments[1][k])].config],
               cache |-> got.cache]

\* get_continuous_deployment_config read by a watcher: no session, every environment
GetContinuousDeploymentConfig(repository) ==
    \E fetched \in OnMiss(cache, "continuousDeploymentConfig", repository, FetchedConfigs(repository)) :
        LET got == get_continuous_deployment_config(cache, None, repository, None, fetched) IN
        /\ cache' = got.cache
        /\ last' = [op |-> "config", repository |-> repository,
                    miss |-> ~Contains(cache, "continuousDeploymentConfig", repository),
                    listed |-> IF fetched \in NotFetched THEN {} ELSE fetched.listed,
                    tasks |-> IF fetched \in NotFetched THEN <<>> ELSE fetched.tasks,
                    captured |-> IF fetched \in NotFetched THEN {} ELSE fetched.captured,
                    result |-> IF got.ok THEN "ok" ELSE got.val]
        /\ UNCHANGED <<sessions, opened, closed, upstream_log, now, coroutines>>

-----------------------------------------------------------------------------
\* Session Manager

SessionTTL == 7200

\* the session open_session creates
NewSession(session_id) ==
    [session_id |-> session_id,
     shared |-> 1,
     repositories |-> [values |-> <<>>, last_access |-> 0, ttl |-> SessionTTL]]

\* Mutant: a new session is stored whether or not the identity has one
Mutant_open_session_always_new(table, session_id) ==
    [table EXCEPT ![session_id] = <<NewSession(session_id)>>]

\* open_session: the table after the call
open_session(table, session_id) ==
    IF table[session_id] # <<>>
    THEN [table EXCEPT ![session_id] = <<[@[1] EXCEPT !.shared = @ + 1]>>]
    ELSE [table EXCEPT ![session_id] = <<NewSession(session_id)>>]

\* Mutant: the session is removed only once the count is below zero
Mutant_close_below_zero(table, session_id) ==
    LET shared == table[session_id][1].shared - 1 IN
    IF shared < 0 THEN [table EXCEPT ![session_id] = <<>>]
    ELSE [table EXCEPT ![session_id] = <<[@[1] EXCEPT !.shared = shared]>>]

\* close_session, called by a holder with the session it was given (the
\* object the table holds): the table after the call
close_session(table, session_id) ==
    LET shared == table[session_id][1].shared - 1 IN
    IF shared <= 0 THEN [table EXCEPT ![session_id] = <<>>]
    ELSE [table EXCEPT ![session_id] = <<[@[1] EXCEPT !.shared = shared]>>]

\* self.cache_local_sessions.pop(session_id) on an identity without a session
SessionGone(table, session_id) == table[session_id] = <<>>

OpenSession(session_id) ==
    /\ opened[session_id] < MaxOpens
    /\ sessions' = open_session(sessions, session_id)
    /\ opened' = [opened EXCEPT ![session_id] = @ + 1]
    /\ last' = [op |-> "open_session", session_id |-> session_id,
                created |-> sessions[session_id] = <<>>, result |-> "ok"]
    /\ UNCHANGED <<cache, closed, upstream_log, now, coroutines>>

\* A holder releases: there are more opens than closes on the identity
CloseSession(session_id) ==
    /\ opened[session_id] > closed[session_id]
    /\ sessions' = IF SessionGone(sessions, session_id) THEN sessions
                   ELSE close_session(sessions, session_id)
    /\ LET gone == sessions'[session_id] = <<>> IN
       /\ opened' = [opened EXCEPT ![session_id] = IF gone THEN 0 ELSE @]
       /\ closed' = [closed EXCEPT ![session_id] = IF gone THEN 0 ELSE @ + 1]
       /\ last' = [op |-> "close_session", session_id |-> session_id,
                   removed |-> gone,
                   \* opens and closes on the session, this one included
                   opens |-> opened[session_id], closes |-> closed[session_id] + 1,
                   result |-> IF SessionGone(sessions, session_id)
                              THEN "KeyError" ELSE "ok"]
    /\ UNCHANGED <<cache, upstream_log, now, coroutines>>

-----------------------------------------------------------------------------
\* Authorization path and the session's repository-permission cache

\* Repositories of the team a caller may name
RepositoryNames == {"app", "lib"}

\* Permission levels the provider reports on a repository
PermissionLevels == {"read", "admin"}

\* Permissions.READ_CAPABILITIES
READ_CAPABILITIES == {"read", "write", "admin"}

Actions == {"WATCH_CONTINOUS_DEPLOYMENT_CONFIG",
            "WATCH_CONTINUOUS_DEPLOYMENT_VERSIONS_AVAILABLE",
            "WATCH_CONTINUOUS_DEPLOYMENT_ENVIRONMENTS_AVAILABLE"}

\* self.accesscontrol_rules.get(action, [])
accesscontrol_rules(action) == IF action \in Actions THEN READ_CAPABILITIES ELSE {}

\* Actions a caller may ask for; "GET_REPOSITORY" has no rule
RequestedActions == {"WATCH_CONTINOUS_DEPLOYMENT_CONFIG", "GET_REPOSITORY"}

\* Answers of permissions.repositories.get(): the repositories the caller can
\* reach, each with a permission level, in the provider's order
PermissionListings ==
    {<<>>} \cup
    {<<[name |-> "app", permission |-> p]>> : p \in PermissionLevels} \cup
    {<<[name |-> "app", permission |-> p], [name |-> "lib", permission |-> "read"]>> :
        p \in PermissionLevels}

\* Answers of permissions.repositories.get_by_full_name(team/repository)
PermissionAnswers(repository) ==
    {None} \cup {Some([name |-> repository, permission |-> p]) : p \in PermissionLevels}

\* The first cached repository of that name, or None
CachedRepository(values, repository) ==
    LET found == {i \in 1..Len(values) : values[i].name = repository} IN
    IF found = {} THEN None
    ELSE Some(values[CHOOSE i \in found : \A j \in found : i <= j])

\* Mutant: the cached list is never consulted
Mutant_accesscontrol_always_direct(session, repository, action, t, answer) ==
    LET repo == answer IN
    [using_cache |-> FALSE,
     calls |-> <<"get_by_full_name">>,
     session |-> session,
     result |-> IF repo = None THEN "AccessForbidden"
                ELSE IF repo[1].permission \notin accesscontrol_rules(action)
                     THEN "AccessForbidden"
                     ELSE "ok"]

\* accesscontrol at clock reading t; answer is what the provider would say to
\* the direct call. Returns the outcome, the provider calls made, and the
\* session after the call.
accesscontrol(session, repository, action, t, answer) ==
    LET repositories == session.repositories
        using_cache == (t - repositories.last_access) < repositories.ttl
        repo == IF using_cache
                THEN CachedRepository(repositories.values, repository)
                ELSE answer
    IN [using_cache |-> using_cache,
        calls |-> IF using_cache THEN <<>> ELSE <<"get_by_full_name">>,
        session |-> session,
        result |-> IF repo = None THEN "AccessForbidden"
                   ELSE IF repo[1].permission \notin accesscontrol_rules(action)
                        THEN "AccessForbidden"
                        ELSE "ok"]

\* get_repositories at clock reading t: the session after the call
get_repositories(session, t, listing) ==
    [session EXCEPT !.repositories.values = listing,
                    !.repositories.last_access = t]

AccessControl(session_id, repository, action, answer) ==
    /\ sessions[session_id] # <<>>
    /\ LET session == sessions[session_id][1]
           r == accesscontrol(session, repository, action, now, answer) IN
       \* the provider's answer matters only when the direct call is made
       /\ r.using_cache => answer = None
       /\ sessions' = [sessions EXCEPT ![session_id] = <<r.session>>]
       /\ last' = [op |-> "accesscontrol", session_id |-> session_id,
                   repository |-> repository, action |-> action,
                   at |-> now, before |-> session.repositories, answer |-> answer,
                   calls |-> r.calls, result |-> r.result]
    /\ UNCHANGED <<cache, opened, closed, upstream_log, now, coroutines>>

GetRepositories(session_id, listing) ==
    /\ sessions[session_id] # <<>>
    /\ sessions' = [sessions EXCEPT
                       ![session_id] = <<get_repositories(@[1], now, listing)>>]
    /\ last' = [op |-> "get_repositories", session_id |-> session_id,
                at |-> now, result |-> "ok"]
    /\ UNCHANGED <<cache, opened, closed, upstream_log, now, coroutines>>

\* Time passes between two calls
Tick ==
    /\ now < StartTime + MaxTicks * TickStep
    /\ now' = now + TickStep
    /\ last' = [op |-> "tick", result |-> "ok"]
    /\ UNCHANGED <<cache, sessions, opened, closed, upstream_log, coroutines>>

-----------------------------------------------------------------------------
\* Deployment Trigger Orchestrator

\* get_continuous_deployment_versions_available: with a session the coroutine
\* of the fetch is returned without being awaited; without one the cached list
get_continuous_deployment_versions_available(c, session, repository, fetched) ==
    IF session # None THEN [ok |-> TRUE, val |-> [kind |-> "coroutine"], cache |-> c]
    ELSE LET got == CacheGet(c, "available", repository, fetched) IN
         IF ~got.ok THEN [ok |-> FALSE, val |-> got.val, cache |-> got.cache]
         ELSE [ok |-> TRUE, val |-> [kind |-> "list", items |-> got.val], cache |-> got.cache]

\* utils/cd.py trigger_prepare: "ok" when it returns, else the exception raised
trigger_prepare(continuous_deployment, versions_available, repository, environment, version) ==
    IF continuous_deployment.readonly THEN "TriggerCdReadOnly"
    ELSE IF continuous_deployment.version = version THEN "TriggerCdVersionAlreadyDeployed"
    \* for available in versions_available
    ELSE IF versions_available.kind # "list" THEN "TypeError"
    ELSE IF \E i \in 1..Len(versions_available.items) :
                versions_available.items[i].version = version
         THEN "ok"
    ELSE "TriggerCdVersionUnsupported"

\* The exceptions of the four preconditions
PreconditionErrors == {"TriggerCdEnvUnsupported", "TriggerCdReadOnly",
                       "TriggerCdVersionAlreadyDeployed", "TriggerCdVersionUnsupported"}

\* What the provider holds when a trigger is called: the version deployed on
\* the environment's branch, whether the requested version is a successful
\* build, whether a tagged pull request to the branch is open
\* and the call of the trigger's upstream steps that the provider fails, if any
NoFault == [step |-> "none", error |-> "none"]

UpstreamStates == [deployed : Versions, listed : BOOLEAN, open_pr : BOOLEAN,
                   fault : {NoFault}]

\* The provider calls of the trigger after the preconditions
StepNames == {"branch.get", "branch.delete", "branch.create", "upload",
              "pullrequest.create", "pullrequest.get"}

\* aiobitbucket errors: NetworkNotFound, and any other error of a call
UpstreamErrors == {"NetworkNotFound", "NetworkError"}

Faults == {NoFault} \cup [step : StepNames, error : UpstreamErrors]

\* Upstream states under which the preconditions can pass, with any fault
FaultyUpstreamStates == [deployed : {1}, listed : {TRUE}, open_pr : BOOLEAN,
                         fault : Faults]

cd_pullrequest_tag == "Continuous Deployment"

\* The pull request as the trigger fills it in before pr.create()
pull_request(environment, deploy_branch, branch) ==
    [title |-> <<"Ugrade", environment, cd_pullrequest_tag>>,
     close_source_branch |-> TRUE,
     source |-> deploy_branch,
     destination |-> branch]

\* The provider calls of a pull-request-mediated trigger, in program order
PullRequestSteps(environment, deploy_branch, branch) ==
    << <<"branch.get", branch>>,
       <<"branch.delete", deploy_branch>>,
       <<"branch.create", deploy_branch>>,
       <<"upload", deploy_branch>>,
       <<"pullrequest.create", pull_request(environment, deploy_branch, branch)>>,
       <<"pullrequest.get", deploy_branch>> >>

\* The provider call of a direct trigger
DirectSteps(branch) == << <<"upload", branch>> >>

\* except NetworkNotFound: pass, around deploy_branch.delete() only
Swallowed(step, error) == step = "branch.delete" /\ error = "NetworkNotFound"

\* The calls made, up to the first one whose error is not caught, and how
\* the sequence ends
RunSteps(steps, fault) ==
    LET failing == {i \in 1..Len(steps) :
                        steps[i][1] = fault.step /\ ~Swallowed(fault.step, fault.error)}
        stop == IF failing = {} THEN Len(steps)
                ELSE CHOOSE i \in failing : \A j \in failing : i <= j
    IN [issued |-> SubSeq(steps, 1, stop),
        result |-> IF failing = {} THEN "ok" ELSE fault.error]

\* The calls that change something upstream
Mutating(calls) ==
    SelectSeq(calls, LAMBDA call : call[1] \notin {"branch.get", "pullrequest.get"})

EnvironmentIndex(environment) ==
    IF \E i \in 1..Len(cd_environments) : cd_environments[i].name = environment
    THEN CHOOSE i \in 1..Len(cd_environments) :
            /\ cd_environments[i].name = environment
            /\ \A j \in 1..(i - 1) : cd_environments[j].name # environment
    ELSE 0

Outcome(result, returned, c, log) ==
    [result |-> result, returned |-> returned, cache |-> c, log |-> log]

\* Mutant: the version file is written before the environment is looked up
Mutant_trigger_uploads_first(c, log, session, repository, environment, version, up) ==
    IF EnvironmentIndex(environment) = 0
    THEN Outcome("TriggerCdEnvUnsupported", None, c, Append(log, <<"upload", environment>>))
    ELSE Outcome("AttributeError", None, c, Append(log, <<"upload", environment>>))

\* trigger_continuous_deployment, run to completion: the exception raised or
\* "ok", the configuration returned, the cache and the provider's log after it
trigger_continuous_deployment(c, log, session, repository, environment, version, up) ==
    LET index == EnvironmentIndex(environment) IN
    IF index = 0 THEN Outcome("TriggerCdEnvUnsupported", None, c, log)
    ELSE
    LET cd_environment_config == cd_environments[index]
        configs == get_continuous_deployment_config(c, session, repository,
                                                    Some(<<environment>>), Err("unused"))
    IN
    IF ~configs.ok THEN Outcome(configs.val, None, configs.cache, log)
    ELSE
    LET continuous_deployment == configs.val[1]
        versions == get_continuous_deployment_versions_available(
                        configs.cache, session, repository, Err("unused"))
    IN
    IF ~versions.ok THEN Outcome(versions.val, None, versions.cache, log)
    ELSE
    LET prepared == trigger_prepare(continuous_deployment, versions.val,
                                    repository, environment, version)
        branch == cd_environment_config.branch
        deploy_branch == <<"continuous-deployment", environment>>
    IN
    IF prepared # "ok" THEN Outcome(prepared, None, versions.cache, log)
    \* bitbucket is the default session, None
    ELSE IF session = None THEN Outcome("AttributeError", None, versions.cache, log)
    ELSE IF cd_environment_config.pullrequest
    THEN IF up.open_pr
         THEN Outcome("SccsException", PullRequestLink, versions.cache, log)
         ELSE LET run == RunSteps(PullRequestSteps(environment, deploy_branch, branch),
                                  up.fault) IN
              Outcome(run.result,
                      IF run.result = "ok"
                      THEN Some([continuous_deployment EXCEPT !.pullrequest = PullRequestLink])
                      ELSE None,
                      versions.cache,
                      log \o Mutating(run.issued))
    ELSE LET run == RunSteps(DirectSteps(branch), up.fault) IN
         Outcome(run.result,
                 IF run.result = "ok"
                 THEN Some([continuous_deployment EXCEPT !.version = version])
                 ELSE None,
                 versions.cache, log \o Mutating(run.issued))

\* A trigger is called with the session open_session gave its caller
Trigger(session_id, repository, environment, version, up) ==
    /\ sessions[session_id] # <<>>
    /\ LET r == trigger_continuous_deployment(cache, upstream_log, Some(sessions[session_id][1]),
                                              repository, environment, version, up) IN
       /\ cache' = r.cache
       /\ upstream_log' = r.log
       /\ last' = [op |-> "trigger", repository |-> repository, environment |-> environment,
                   version |-> version, up |-> up,
                   result |-> r.result, returned |-> r.returned,
                   cache_changed |-> r.cache # cache,
                   issued |-> SubSeq(r.log, Len(upstream_log) + 1, Len(r.log))]
    /\ UNCHANGED <<sessions, opened, closed, now, coroutines>>

\* Environment names a caller may ask for; "staging" is not configured
RequestedEnvironments == EnvNames \cup {"staging"}

-----------------------------------------------------------------------------
\* Calls in flight. A coroutine runs without interruption from one suspension
\* to the next; the event loop picks which suspended coroutine goes on.

\* Two concurrent triggers and two concurrent commit-status handlers
TriggerIds == {"trigger-1", "trigger-2"}
HandlerIds == {"handler-1", "handler-2"}
CoroutineIds == TriggerIds \cup HandlerIds

Idle == [status |-> "idle"]

\* Whether a tagged pull request to the branch was created by a logged call
PullRequestCreatedFor(log, branch) ==
    \E i \in 1..Len(log) :
        log[i][1] = "pullrequest.create" /\ log[i][2].destination = branch

\* __handle_commit_status up to its first suspension: the handler that reads
\* the cached list and misses waits for the population function; any other
\* runs to its end
HandlerStarts(h, UUID, event, commit_status) ==
    /\ coroutines[h] = Idle
    /\ LET waits == /\ ReadsAvailable(event, commit_status)
                    /\ ~Contains(cache, "available", UUID)
           r == __handle_commit_status(cache, UUID, event, commit_status, Err("unused")) IN
       /\ cache' = IF waits THEN cache ELSE r.cache
       /\ coroutines' = [coroutines EXCEPT ![h] =
                            [status |-> IF waits THEN "populating" ELSE "done",
                             UUID |-> UUID, event |-> event,
                             commit_status |-> commit_status,
                             result |-> IF waits THEN "pending" ELSE r.result]]
       /\ last' = [op |-> "handler_starts", coroutine |-> h, result |-> "ok"]
    /\ UNCHANGED <<sessions, opened, closed, upstream_log, now>>

\* The population function of a waiting handler answers: the cache stores the
\* list and hands it to the handler, which scans it and writes it back
HandlerResumes(h, fetched) ==
    /\ coroutines[h].status = "populating"
    /\ LET f == coroutines[h]
           r == IF fetched.ok
                THEN scan_and_store(CacheSet(cache, "available", f.UUID, fetched.val),
                                    f.UUID, f.commit_status, fetched.val)
                ELSE [result |-> fetched.val, cache |-> cache, branch |-> "successful"] IN
       /\ cache' = r.cache
       /\ coroutines' = [coroutines EXCEPT ![h].status = "done", ![h].result = r.result]
       /\ last' = [op |-> "handler_resumes", coroutine |-> h, result |-> r.result]
    /\ UNCHANGED <<sessions, opened, closed, upstream_log, now>>

\* The trigger up to its first suspension. Everything down to the failing
\* expression of get_continuous_deployment_config is evaluated without
\* suspending; the coroutine then waits in `finally: await
\* bitbucket.close_session()` with its exception pending (an undeclared
\* environment is refused before the session is entered). The scan for an
\* open pull request sees the ones created since the call's upstream state
\* was drawn.
TriggerStarts(t, session_id, repository, environment, version, up) ==
    /\ coroutines[t] = Idle
    /\ sessions[session_id] # <<>>
    /\ LET index == EnvironmentIndex(environment)
           seen == IF index = 0 THEN up
                   ELSE [up EXCEPT !.open_pr =
                            @ \/ PullRequestCreatedFor(upstream_log,
                                                       cd_environments[index].branch)]
           r == trigger_continuous_deployment(cache, upstream_log,
                                              Some(sessions[session_id][1]),
                                              repository, environment, version, seen) IN
       /\ cache' = r.cache
       /\ upstream_log' = r.log
       /\ coroutines' = [coroutines EXCEPT ![t] =
                            [status |-> IF index = 0 THEN "done" ELSE "closing",
                             repository |-> repository,
                             environment |-> environment, version |-> version,
                             up |-> up, result |-> r.result,
                             issued |-> SubSeq(r.log, Len(upstream_log) + 1, Len(r.log))]]
       /\ last' = [op |-> "trigger_starts", coroutine |-> t, result |-> "ok"]
    /\ UNCHANGED <<sessions, opened, closed, now>>

\* The session of the call is closed and the outcome reaches the caller
TriggerReturns(t) ==
    /\ coroutines[t].status = "closing"
    /\ coroutines' = [coroutines EXCEPT ![t].status = "done"]
    /\ last' = [op |-> "trigger_returns", coroutine |-> t, result |-> coroutines[t].result]
    /\ UNCHANGED <<cache, sessions, opened, closed, upstream_log, now>>

-----------------------------------------------------------------------------
SessionIds == {"alice", "bob"}

Init ==
    /\ cache = [ns \in Namespaces |-> [r \in Repos |-> <<>>]]
    /\ sessions = [s \in SessionIds |-> <<>>]
    /\ opened = [s \in SessionIds |-> 0]
    /\ closed = [s \in SessionIds |-> 0]
    /\ upstream_log = <<>>
    /\ now = StartTime
    /\ coroutines = [k \in CoroutineIds |-> Idle]
    /\ last = [op |-> "init", result |-> "ok", event |-> <<>>]

Hook == \E e \in HookEvents, r \in Repos : HooksRepo(e, r, BarePayload(e))

HookDelivered ==
    \E e \in HookEvents, r \in Repos : \E body \in Payloads(e) : HooksRepo(e, r, body)

Push == \E r \in Repos, ch \in PushChanges : HandlePush(r, ch)

CommitStatus ==
    \E r \in Repos, e \in {"repo:commit_status_created", "repo:commit_status_updated"},
       cs \in CommitStatuses : HandleCommitStatus(r, e, cs)

ReadEnvironments == \E r \in Repos : GetEnvironmentsAvailable(r)

ReadVersions == \E r \in Repos : GetVersionsAvailable(r)

ReadConfig == \E r \in Repos : GetContinuousDeploymentConfig(r)

\* The server process: webhook events and the handlers' bodies, with the
\* watchers' reads of the two lists the handlers maintain
Next == Hook \/ Push \/ CommitStatus \/ ReadEnvironments \/ ReadVersions

Spec == Init /\ [][Next]_vars

\* The endpoint receiving events with their bodies, and the watchers' reads
\* that fill the two lists the events are about
NextEndpoint == HookDelivered \/ ReadEnvironments \/ ReadVersions

SpecEndpoint == Init /\ [][NextEndpoint]_vars

\* The cache under the watchers' reads of every namespace and the endpoint
NextCache == Hook \/ ReadEnvironments \/ ReadVersions \/ ReadConfig

SpecCache == Init /\ [][NextCache]_vars

Open == \E s \in SessionIds : OpenSession(s)

Close == \E s \in SessionIds : CloseSession(s)

\* The session table under any balanced use by the holders
NextSession == Open \/ Close

SpecSession == Init /\ [][NextSession]_vars

TriggerCd ==
    \E s \in SessionIds, r \in Repos, e \in RequestedEnvironments, v \in Versions,
       up \in UpstreamStates : Trigger(s, r, e, v, up)

TriggerCdFaulty ==
    \E r \in Repos, e \in RequestedEnvironments, v \in Versions,
       up \in FaultyUpstreamStates : Trigger("alice", r, e, v, up)

\* A caller's triggers against a provider that may fail one of the calls
NextTrigger == OpenSession("alice") \/ CloseSession("alice") \/ TriggerCdFaulty

SpecTrigger == Init /\ [][NextTrigger]_vars

StartHandler ==
    \E h \in HandlerIds, r \in Repos,
       e \in {"repo:commit_status_created", "repo:commit_status_updated"},
       cs \in CommitStatuses : HandlerStarts(h, r, e, cs)

ResumeHandler ==
    \E h \in HandlerIds, r \in Repos :
        \E fetched \in FetchedVersions(r) :
            /\ coroutines[h].status = "populating"
            /\ coroutines[h].UUID = r
            /\ HandlerResumes(h, fetched)

\* Two commit-status handlers in flight together on the server's event loop
NextHandlers == StartHandler \/ ResumeHandler

SpecHandlers == Init /\ [][NextHandlers]_vars

StartTrigger ==
    \E t \in TriggerIds, r \in Repos, e \in RequestedEnvironments, v \in Versions,
       up \in UpstreamStates : TriggerStarts(t, "alice", r, e, v, up)

ReturnTrigger == \E t \in TriggerIds : TriggerReturns(t)

\* Two triggers of one caller in flight together
NextTriggers == OpenSession("alice") \/ StartTrigger \/ ReturnTrigger

SpecTriggers == Init /\ [][NextTriggers]_vars

\* The control process: a caller opens a session and triggers deployments,
\* a watcher reads the configuration into the cache
NextControl == OpenSession("alice") \/ CloseSession("alice") \/ TriggerCd \/ ReadConfig

SpecControl == Init /\ [][NextControl]_vars

Access ==
    \E r \in RepositoryNames, a \in RequestedActions :
        \E answer \in PermissionAnswers(r) : AccessControl("alice", r, a, answer)

ListRepositories == \E l \in PermissionListings : GetRepositories("alice", l)

\* A caller's session over time: the repository listing fills the permission
\* cache, authorization checks consult it
NextAccess == OpenSession("alice") \/ CloseSession("alice") \/ ListRepositories
              \/ Access \/ Tick

SpecAccess == Init /\ [][NextAccess]_vars

-----------------------------------------------------------------------------
\* Properties of the two cached lists

Cached(ns, r) == cache[ns][r][1]

StageRank(entry) == Index(cd_branches_accepted, entry.key[2])

\* C6: in every reachable state the cached AvailableVersion list of a
\* repository is strictly descending by build number, hence holds at most one
\* entry per build number.
C6_AvailableStrictlyDescending ==
    \A r \in Repos :
        Contains(cache, "available", r) =>
            LET l == Cached("available", r) IN
            /\ \A i, j \in 1..Len(l) : i < j => l[i].build.n > l[j].build.n
            /\ \A i, j \in 1..Len(l) : l[i].build.n = l[j].build.n => i = j

\* C6 witness: a successful commit-status event on a tracked ref has been
\* handled for a repository whose cached list holds two builds.
C6_Witness ==
    /\ last.op = "commit_status" /\ last.successful /\ last.tracked
    /\ \E r \in Repos : Contains(cache, "available", r) /\ Len(Cached("available", r)) >= 2

\* C7: in every reachable state the cached EnvironmentConfig list of a
\* repository is ordered by the stage rank of its entries' branches, with at
\* most one entry per stage rank.
C7_EnvironmentsOrderedByStage ==
    \A r \in Repos :
        Contains(cache, "environementConfig", r) =>
            LET l == Cached("environementConfig", r) IN
            \A i, j \in 1..Len(l) : i < j => StageRank(l[i]) < StageRank(l[j])

\* C7 witness: a push event creating a CD branch has been handled and the
\* cached list, recomputed from a listing, holds all the stages.
C7_Witness ==
    /\ last.op = "push" /\ last.created
    /\ \E r \in Repos : /\ Contains(cache, "environementConfig", r)
                        /\ Len(Cached("environementConfig", r)) = Len(cd_environments)

SuccessfulTracked == {cs \in CommitStatuses : cs.state = "SUCCESSFUL"
                                               /\ cs.refname \in cd_versions_available}

\* The population outcomes that give the handler a list to work on
Populated(c, ns, key, outcomes) == {f \in OnMiss(c, ns, key, outcomes) : f.ok \/ Contains(c, ns, key)}

\* C8: handling the same successful commit-status event a second time leaves
\* the AvailableVersion list as the first handling left it, whatever the list
\* held before: for every event that can arrive in a reachable state, and for
\* the replays the model has performed.
C8_CommitStatusIdempotent ==
    /\ \A r \in Repos, e \in {"repo:commit_status_created", "repo:commit_status_updated"},
          cs \in SuccessfulTracked :
          \A f \in Populated(cache, "available", r, FetchedVersions(r)) :
             LET once == __handle_commit_status(cache, r, e, cs, f)
                 twice == __handle_commit_status(once.cache, r, e, cs, Err("unused"))
             IN twice.cache["available"][r] = once.cache["available"][r]
    /\ (last.op = "commit_status" /\ last.replay) => ~last.changed

\* C8 witness: a successful event on a tracked ref has just been replayed on a
\* repository with a cached list.
C8_Witness ==
    /\ last.op = "commit_status" /\ last.replay
    /\ \E r \in Repos : Contains(cache, "available", r) /\ Len(Cached("available", r)) >= 1

\* C9: once a repository-deleted event for R is processed no namespace holds
\* an entry keyed by R, and the event completes without error however many
\* namespaces held one.
C9_RepoDeletedClearsAll ==
    (last.op = "hook" /\ last.deleted) =>
        /\ \A ns \in Namespaces : ~Contains(cache, ns, last.UUID)
        /\ last.result = "ok"

\* C9 witness: the event arrived when every namespace held an entry for R.
C9_Witness ==
    last.op = "hook" /\ last.deleted /\ last.held = Cardinality(Namespaces)

\* C9 witness of the other case: the event arrived when some namespaces held
\* no entry for R.
C9_WitnessPartial ==
    last.op = "hook" /\ last.deleted /\ last.held < Cardinality(Namespaces)


-----------------------------------------------------------------------------
\* Properties of the deployment trigger

\* The first failing precondition of a trigger as the specification orders
\* them, "passes" when the four hold
FirstFailingPrecondition(environment, version, up) ==
    LET index == EnvironmentIndex(environment) IN
    IF index = 0 THEN "TriggerCdEnvUnsupported"
    ELSE IF ~cd_environments[index].enabled THEN "TriggerCdReadOnly"
    ELSE IF up.deployed = version THEN "TriggerCdVersionAlreadyDeployed"
    ELSE IF ~up.listed THEN "TriggerCdVersionUnsupported"
    ELSE "passes"

Triggered == last.op = "trigger"

PullRequestMediated(environment) ==
    /\ EnvironmentIndex(environment) # 0
    /\ cd_environments[EnvironmentIndex(environment)].pullrequest

\* C1: a trigger that fails one of the four preconditions ends with the error
\* of the first failing one, in the order environment declared, not readonly,
\* version differs, version available (so a readonly environment gives
\* ReadOnly whatever the version).
C1_FirstFailingPreconditionReported ==
    (Triggered /\ FirstFailingPrecondition(last.environment, last.version, last.up) # "passes")
        => last.result = FirstFailingPrecondition(last.environment, last.version, last.up)

\* C2: a trigger that ends with a precondition error has issued no mutating
\* call to the provider and has left the cache as it was.
C2_PreconditionFailureChangesNothing ==
    (Triggered /\ last.result \in PreconditionErrors)
        => (~last.cache_changed /\ last.issued = <<>> /\ last.returned = None)

\* C2 witness: a trigger has failed on a precondition while the cache held the
\* repository's configuration.
C2_Witness ==
    /\ Triggered /\ last.result \in PreconditionErrors
    /\ Contains(cache, "continuousDeploymentConfig", last.repository)

\* C3: a trigger on a pull-request-mediated environment, when a tagged pull
\* request to its branch is open, ends with the deployment-in-progress error
\* carrying that pull request's link, and issues no mutating call.
C3_OpenPullRequestReported ==
    (/\ Triggered
     /\ PullRequestMediated(last.environment)
     /\ FirstFailingPrecondition(last.environment, last.version, last.up) = "passes"
     /\ last.up.open_pr)
        => (last.result = "SccsException" /\ last.returned = PullRequestLink
            /\ last.issued = <<>>)

\* C4: a trigger on a pull-request-mediated environment that meets the
\* preconditions, with no tagged pull request open, has issued when it ends
\* the branch deletion, the branch creation, the version-file write and the
\* pull-request creation, in this order.
C4_PullRequestStepsInOrder ==
    (/\ Triggered
     /\ PullRequestMediated(last.environment)
     /\ FirstFailingPrecondition(last.environment, last.version, last.up) = "passes"
     /\ ~last.up.open_pr)
        => [i \in 1..Len(last.issued) |-> last.issued[i][1]]
              = <<"branch.delete", "branch.create", "upload", "pullrequest.create">>

\* the cached configuration of an environment's branch, None when there is none
CachedConfig(repository, environment) ==
    IF ~Contains(cache, "continuousDeploymentConfig", repository) THEN None
    ELSE LET dict == Cached("continuousDeploymentConfig", repository)
             k == Lookup(dict, cd_environments[EnvironmentIndex(environment)].branch)
         IN IF k = 0 THEN None ELSE Some(dict[k].config)

\* C5: after a trigger that meets the preconditions (with no tagged pull
\* request open) the trigger has succeeded and the cache holds for the
\* environment the configuration returned to the caller.
C5_CacheHoldsReturnedState ==
    (/\ Triggered
     /\ FirstFailingPrecondition(last.environment, last.version, last.up) = "passes"
     /\ ~last.up.open_pr)
        => (/\ last.result = "ok"
            /\ last.returned # None
            /\ CachedConfig(last.repository, last.environment) = last.returned)

-----------------------------------------------------------------------------
\* Properties of the session table

\* C10: a session is in the table exactly while its identity has more opens
\* than closes, with the difference as reference count; open_session creates
\* it with count 1, an empty repository list and a TTL of 7200, or adds one to
\* the count; close_session removes it exactly when the count reaches zero.
C10_SessionReferenceCount ==
    /\ \A s \in SessionIds :
          /\ opened[s] > closed[s] =>
                (sessions[s] # <<>> /\ sessions[s][1].shared = opened[s] - closed[s])
          /\ opened[s] = closed[s] => sessions[s] = <<>>
    /\ (last.op = "open_session" /\ last.created) =>
          /\ sessions[last.session_id] # <<>>
          /\ sessions[last.session_id][1].shared = 1
          /\ sessions[last.session_id][1].repositories.values = <<>>
          /\ sessions[last.session_id][1].repositories.ttl = 7200
    /\ (last.op = "close_session") =>
          /\ last.removed <=> (last.opens = last.closes)
          /\ last.removed <=> (sessions[last.session_id] = <<>>)

\* C10 witness: the last of several holders of an identity has released it.
C10_Witness ==
    last.op = "close_session" /\ last.removed /\ last.opens >= 2

\* C10 witness of the other case: a holder released and others remain.
C10_WitnessShared ==
    last.op = "close_session" /\ ~last.removed /\ last.opens - last.closes >= 1

-----------------------------------------------------------------------------
\* Authorization path

AccessChecked == last.op = "accesscontrol"

WithinTTL == AccessChecked /\ (last.at - last.before.last_access) < last.before.ttl

PermissionCacheOf(session_id) == sessions[session_id][1].repositories

\* C11 (as stated): an authorization check made when the permission cache's
\* age is not within its TTL makes a direct upstream call, refreshes the
\* cache with the result and resets the cache's timestamp, so the next check
\* within the TTL is served from the cache.
C11_StaleCheckRefreshesCache ==
    (AccessChecked /\ ~WithinTTL) =>
        /\ last.calls = <<"get_by_full_name">>
        /\ PermissionCacheOf(last.session_id).last_access = last.at

\* C11 (amended): a check within the TTL is decided by the cached list with
\* no upstream call; a check outside the TTL is decided by a direct upstream
\* call and leaves the cached list and its timestamp as they were, so the
\* cache stays stale until the repositories are listed again.
C11_AccessControlReadsCacheOrCallsUpstream ==
    AccessChecked =>
        LET repo == IF WithinTTL
                    THEN CachedRepository(last.before.values, last.repository)
                    ELSE last.answer
            allowed == repo # None /\ repo[1].permission \in accesscontrol_rules(last.action)
        IN /\ WithinTTL => last.calls = <<>>
           /\ ~WithinTTL => last.calls = <<"get_by_full_name">>
           /\ (last.result = "ok") <=> allowed
           /\ PermissionCacheOf(last.session_id) = last.before

\* A check outside the TTL on a cache that had been filled earlier
C11_Witness ==
    /\ AccessChecked /\ ~WithinTTL
    /\ last.before.last_access > 0
    /\ last.result = "ok"

\* A check within the TTL that the cached list allows
C11_WitnessCached ==
    AccessChecked /\ WithinTTL /\ last.result = "ok"

-----------------------------------------------------------------------------
\* Shared State Cache contract, seen through the watchers' reads

NamespaceOf(op) == IF op = "environments" THEN "environementConfig" ELSE "available"

\* The step is a watcher's read of the environment or the version list
ReadStep == last' # last /\ last'.op \in {"environments", "versions"}

\* C12: a get on a present key returns the stored value without invoking the
\* population function and leaves the cache as it is; a get on an absent key
\* invokes the population function and, when that succeeds, the value is
\* stored under the key when get returns; a get that immediately follows a
\* successful get of the same key returns the same value without populating.
C12_GetReturnsStoredOrPopulates ==
    [][ReadStep =>
        LET ns == NamespaceOf(last'.op)
            key == last'.repository IN
        /\ Contains(cache, ns, key) =>
              /\ ~last'.miss
              /\ last'.returned = cache[ns][key]
              /\ cache' = cache
        /\ ~Contains(cache, ns, key) =>
              /\ last'.miss
              /\ last'.result = "ok" =>
                    /\ Contains(cache', ns, key)
                    /\ cache'[ns][key] = last'.returned
        /\ (last.op = last'.op /\ last.repository = key /\ last.result = "ok") =>
              /\ ~last'.miss
              /\ last'.returned = last.returned
    ]_vars

\* A read that populated the key, and a read that found it
C12_Witness ==
    /\ last.op = "environments" /\ last.miss /\ last.result = "ok"
    /\ last.returned # Some(<<>>)

C12_WitnessHit ==
    /\ last.op = "environments" /\ ~last.miss
    /\ last.returned # Some(<<>>)

\* C13: when the population function invoked by a miss fails, the read ends
\* with that failure, the key is still absent and the cache is as it was; a
\* read of the same key right after a failed read invokes the population
\* function again.
C13_FailedPopulationLeavesKeyAbsent ==
    [][ReadStep =>
        LET ns == NamespaceOf(last'.op)
            key == last'.repository IN
        /\ last'.result # "ok" =>
              /\ last'.miss
              /\ last'.returned = None
              /\ ~Contains(cache', ns, key)
              /\ cache' = cache
        /\ (last.op = last'.op /\ last.repository = key /\ last.result # "ok") =>
              last'.miss
    ]_vars

\* A read of the version list whose population failed
C13_Witness ==
    /\ last.op = "versions" /\ last.miss /\ last.result = "NetworkError"
    /\ ~Contains(cache, "available", last.repository)

-----------------------------------------------------------------------------
\* Environment Config Synchronizer: the full recompute on a miss

Recomputed == last.op = "config" /\ last.miss /\ last.result # "NetworkError"

ConfiguredBranches == Range(cd_branches_accepted)

\* The branches the cached response of a repository is indexed by
IndexedBranches(r) ==
    IF Contains(cache, "continuousDeploymentConfig", r)
    THEN {Cached("continuousDeploymentConfig", r)[i].branch :
            i \in 1..Len(Cached("continuousDeploymentConfig", r))}
    ELSE {}

\* C14: a recompute in which the resolution of some configured branch failed
\* still completes, and its result, indexed by branch name, holds the
\* configuration of every branch whose resolution succeeded.
C14_PartialFailureTolerated ==
    (Recomputed /\ last.captured # {}) =>
        /\ last.result = "ok"
        /\ IndexedBranches(last.repository) = Range(last.tasks) \ last.captured

\* C15: a recompute fails with the "continuous deployment seems not
\* supported" error exactly when none of the branches the provider listed is
\* a configured deployment branch; then no per-branch task was created and
\* the key is absent from the cache.
C15_NotSupportedIffNoConfiguredBranch ==
    Recomputed =>
        /\ (last.result = "SccsException") <=> (last.listed \cap ConfiguredBranches = {})
        /\ last.result = "SccsException" =>
              /\ last.tasks = <<>>
              /\ ~Contains(cache, "continuousDeploymentConfig", last.repository)

\* A repository whose branches are all outside the configuration
C15_Witness ==
    /\ Recomputed /\ last.result = "SccsException"
    /\ last.listed # {}

\* A repository with a configured branch is not refused
C15_WitnessSupported ==
    /\ Recomputed /\ last.result = "ok"
    /\ last.listed \cap ConfiguredBranches # {}
    /\ last.listed \ ConfiguredBranches # {}

-----------------------------------------------------------------------------
\* The upstream steps of a trigger

\* A pull-request-mediated trigger that meets the preconditions, with no
\* tagged pull request open
PullRequestTriggerRuns ==
    /\ Triggered
    /\ PullRequestMediated(last.environment)
    /\ FirstFailingPrecondition(last.environment, last.version, last.up) = "passes"
    /\ ~last.up.open_pr

PullRequestsCreated ==
    {last.issued[i][2] : i \in {j \in 1..Len(last.issued) :
                                    last.issued[j][1] = "pullrequest.create"}}

DeployBranchOf(environment) == <<"continuous-deployment", environment>>

BranchOf(environment) == cd_environments[EnvironmentIndex(environment)].branch

\* C16: a pull-request-mediated trigger for environment E that runs through
\* with no upstream failure has created one pull request, titled
\* "Upgrade E <tag>", from the dedicated deployment branch to the
\* environment's branch, closing the source branch on merge.
C16_PullRequestAsSpecified ==
    (PullRequestTriggerRuns /\ last.up.fault = NoFault) =>
        PullRequestsCreated =
            {[title |-> <<"Upgrade", last.environment, cd_pullrequest_tag>>,
              close_source_branch |-> TRUE,
              source |-> DeployBranchOf(last.environment),
              destination |-> BranchOf(last.environment)]}

\* The names of the mutating calls a pull-request-mediated trigger makes
\* when the provider fails the call fault.step with fault.error
ExpectedIssued(fault) ==
    LET all == <<"branch.delete", "branch.create", "upload", "pullrequest.create">>
        reads == <<"branch.get", "pullrequest.get">>
    IN IF fault = NoFault \/ Swallowed(fault.step, fault.error) THEN all
       ELSE IF fault.step = "branch.get" THEN <<>>
       ELSE IF fault.step = "pullrequest.get" THEN all
       ELSE SubSeq(all, 1, Index(all, fault.step))

\* C20: in a pull-request-mediated trigger a not-found error of the
\* deployment-branch deletion is swallowed and the trigger goes on to create
\* the branch and ends well; any other error of an upstream step ends the
\* trigger with that error, no later step being made.
C20_OnlyNotFoundOnDeleteSwallowed ==
    (PullRequestTriggerRuns /\ last.up.fault # NoFault) =>
        /\ last.result = IF Swallowed(last.up.fault.step, last.up.fault.error)
                         THEN "ok" ELSE last.up.fault.error
        /\ [i \in 1..Len(last.issued) |-> last.issued[i][1]] = ExpectedIssued(last.up.fault)

-----------------------------------------------------------------------------
\* Webhook events and the two lists

HookProcessed(keys) == last.op = "hook" /\ last.key \in keys

\* Stage ranks of the configured branches a push reports as created
CreatedRanks(changes) ==
    {Index(cd_branches_accepted, changes[k].name) :
        k \in {j \in 1..Len(changes) : changes[j].created}} \ {0}

\* C17: when the endpoint has processed a push that reports a created ref
\* named as a configured deployment branch, the repository's cached
\* environment list, which no recompute has touched, holds an entry of that
\* branch's stage rank.
C17_PushInsertsPlaceholder ==
    (/\ HookProcessed({"repo:push"})
     /\ Contains(cache, "environementConfig", last.UUID)) =>
        \A rank \in CreatedRanks(last.payload.changes) :
            \E i \in 1..Len(Cached("environementConfig", last.UUID)) :
                StageRank(Cached("environementConfig", last.UUID)[i]) = rank

\* C18: when the endpoint has processed a successful commit status on a
\* tracked ref with build number n, the repository's cached version list
\* holds exactly one entry with build number n.
C18_SuccessfulBuildListedOnce ==
    (/\ HookProcessed({"repo:commit_status_created", "repo:commit_status_updated"})
     /\ last.payload.commit_status[1].state = "SUCCESSFUL"
     /\ last.payload.commit_status[1].refname \in cd_versions_available
     /\ Contains(cache, "available", last.UUID)) =>
        Cardinality({i \in 1..Len(Cached("available", last.UUID)) :
                        Cached("available", last.UUID)[i].build.n
                            = last.payload.commit_status[1].build}) = 1

\* C19: a commit status that is failed, stopped or in progress, or on an
\* untracked ref, leaves both lists as they were; failed and stopped are
\* handled by one branch and in-progress by a branch of its own.
C19_UnsuccessfulStatusChangesNothing ==
    (last.op = "commit_status" /\ (~last.successful \/ ~last.tracked)) =>
        /\ ~last.changed
        /\ (last.tracked /\ last.result = "ok") =>
              /\ last.state \in {"FAILED", "STOPPED"} => last.branch = "failed_or_stopped"
              /\ last.state = "INPROGRESS" => last.branch = "inprogress"

-----------------------------------------------------------------------------
\* Direct triggers, and triggers failing upstream

\* A trigger on a declared environment that meets the preconditions
PassesPreconditions ==
    /\ Triggered
    /\ FirstFailingPrecondition(last.environment, last.version, last.up) = "passes"

\* C21: a trigger on a direct environment that meets the preconditions, the
\* provider failing nothing, ends well having made one mutating call, the
\* write of the version file on the environment's branch, and returns a
\* configuration with the desired version and no pull-request link.
C21_DirectTriggerWritesVersionOnly ==
    (/\ PassesPreconditions
     /\ ~PullRequestMediated(last.environment)
     /\ last.up.fault = NoFault) =>
        /\ last.result = "ok"
        /\ last.issued = << <<"upload", BranchOf(last.environment)>> >>
        /\ last.returned # None
        /\ last.returned[1].version = last.version
        /\ last.returned[1].pullrequest = <<>>

-----------------------------------------------------------------------------
\* Concurrent calls

Done(k) == coroutines[k].status = "done"

\* Two finished triggers for one pull-request-mediated environment of one
\* repository, both called when no tagged pull request was open and both
\* meeting the preconditions
TwoTriggersFinished ==
    /\ Done("trigger-1") /\ Done("trigger-2")
    /\ coroutines["trigger-1"].repository = coroutines["trigger-2"].repository
    /\ coroutines["trigger-1"].environment = coroutines["trigger-2"].environment
    /\ PullRequestMediated(coroutines["trigger-1"].environment)
    /\ \A t \in TriggerIds :
          /\ ~coroutines[t].up.open_pr
          /\ FirstFailingPrecondition(coroutines[t].environment, coroutines[t].version,
                                      coroutines[t].up) = "passes"

\* C22: of two triggers for the same pull-request-mediated environment, in
\* flight together from a state without an open tagged pull request, one
\* creates the pull request and the other ends with the
\* deployment-in-progress error; one tagged pull request to the environment's
\* branch has been created, not two.
C22_OneOfTwoTriggersCreatesPullRequest ==
    TwoTriggersFinished =>
        /\ {coroutines[t].result : t \in TriggerIds} = {"ok", "SccsException"}
        /\ Cardinality({i \in 1..Len(upstream_log) :
                            upstream_log[i][1] = "pullrequest.create"}) = 1

\* Two finished handlers of successful statuses for one repository, on
\* tracked refs, with distinct build numbers
TwoHandlersFinished ==
    /\ Done("handler-1") /\ Done("handler-2")
    /\ coroutines["handler-1"].UUID = coroutines["handler-2"].UUID
    /\ coroutines["handler-1"].commit_status.build
          # coroutines["handler-2"].commit_status.build
    /\ \A h \in HandlerIds :
          /\ coroutines[h].commit_status.state = "SUCCESSFUL"
          /\ coroutines[h].commit_status.refname \in cd_versions_available

\* C23: once two handlers of successful statuses with distinct build numbers
\* for one repository have both finished, whatever their interleaving, the
\* cached version list of the repository holds both builds.
C23_BothBuildsListed ==
    TwoHandlersFinished =>
        /\ Contains(cache, "available", coroutines["handler-1"].UUID)
        /\ \A h \in HandlerIds :
              \E i \in 1..Len(Cached("available", coroutines[h].UUID)) :
                  Cached("available", coroutines[h].UUID)[i].build.n
                      = coroutines[h].commit_status.build

-----------------------------------------------------------------------------
\* Session table under balanced use

\* C24: whatever the opens and closes, no holder closing more often than it
\* opened, every session in the table has a reference count of at least 1
\* equal to the opens minus the closes on its identity since it was created,
\* an identity has one session at most, stored under its own identifier, and
\* no close_session fails on a session already removed.
C24_SessionTableInvariant ==
    /\ \A s \in SessionIds :
          sessions[s] # <<>> =>
              /\ Len(sessions[s]) = 1
              /\ sessions[s][1].session_id = s
              /\ sessions[s][1].shared >= 1
              /\ sessions[s][1].shared = opened[s] - closed[s]
    /\ last.op = "close_session" => last.result = "ok"

\* Two identities hold sessions, one of them shared, after a release
C24_Witness ==
    /\ last.op = "close_session"
    /\ \A s \in SessionIds : sessions[s] # <<>>
    /\ \E s \in SessionIds : sessions[s][1].shared >= 2

-----------------------------------------------------------------------------
\* Triggers failing at an upstream step

\* The provider fails a call the trigger of this environment makes, with an
\* error the trigger does not catch
FaultStops(environment, fault) ==
    /\ fault # NoFault
    /\ ~Swallowed(fault.step, fault.error)
    /\ fault.step \in (IF PullRequestMediated(environment) THEN StepNames ELSE {"upload"})

====
